---- MODULE Spec2Model ----
(***************************************************************************)
(* webrss: the fetch / aggregate / cache pipeline of src/main.go.          *)
(*                                                                         *)
(* Goroutines: feedCache (the cache actor), fetchFeeds (the poller), one   *)
(* getFeed per launched URL, and the HTTP handlers that call listFeeds     *)
(* (the readers).  All channels are unbuffered, so a send and its receive  *)
(* are one step.  os.Exit(1) stops every goroutine at once.                *)
(***************************************************************************)
EXTENDS Integers, Sequences, FiniteSets, TLC

\* ------------------------------------------------------------------ bounds
MaxUrls == 2        \* longest URL list explored
MaxTicks == 1       \* timer ticks explored after startup
NReaders == 1       \* concurrent HTTP requests
MaxLen == 3         \* longest snapshot given to filterEntries on its own
MaxWhen == 3        \* timestamps range over 0..MaxWhen, 0 is time.Time{}
MaxItems == 2       \* most items in a document given to getFeed on its own
MaxOverrun == 3     \* timer ticks explored when the ticker is studied alone

\* ------------------------------------------------------------- data model
ZeroTime == 0

\* The URL strings of the model: an empty line, a string url.Parse rejects,
\* and two feeds.
EmptyUrl == ""
BadUrl == "%zz"
UrlA == "http://a/"
UrlB == "http://b/"
Urls == {EmptyUrl, BadUrl, UrlA, UrlB}

Entry(fn, fu, t, u, w) ==
    [FeedName |-> fn, FeedURL |-> fu, Title |-> t, URL |-> u, When |-> w]

\* A date string is modelled by the layout it is written in and the instant
\* it denotes; time.Parse(layout, s) succeeds exactly when the layouts agree.
TimeParse(layout, s) ==
    IF s.layout = layout THEN [err |-> FALSE, t |-> s.t]
                         ELSE [err |-> TRUE, t |-> ZeroTime]

RECURSIVE parseRssFrom(_, _, _)
parseRssFrom(fmts, k, ts) ==
    LET r == TimeParse(fmts[k], ts)
    IN  IF ~r.err THEN r
        ELSE IF k = Len(fmts) THEN r
        ELSE parseRssFrom(fmts, k + 1, ts)

parseRssTimesShort(ts) ==
    parseRssFrom(<<"RFC822", "RFC822Z", "RFC1123">>, 1, ts)

parseRssTimes(ts) ==
    parseRssFrom(<<"RFC822", "RFC822Z", "RFC1123", "RFC1123Z">>, 1, ts)

\* The document each feed serves.  root is the local name of the root
\* element; items carry title, link and the date string.
Doc(u) ==
    IF u = UrlA
    THEN [root |-> "feed", title |-> "Feed A", link |-> "http://a/home",
          items |-> << [title |-> "A1", link |-> "http://a/1",
                        when |-> [layout |-> "RFC3339", t |-> 3]],
                       [title |-> "A2", link |-> "http://a/2",
                        when |-> [layout |-> "garbage", t |-> 2]] >>]
    ELSE [root |-> "rss", title |-> "Feed B", link |-> "http://b/home",
          items |-> << [title |-> "B1", link |-> "http://b/1",
                        when |-> [layout |-> "RFC1123Z", t |-> 1]] >>]

RECURSIVE atomEntries(_, _)
atomEntries(doc, k) ==
    IF k > Len(doc.items) THEN <<>>
    ELSE LET i == doc.items[k]
             when == TimeParse("RFC3339", i.when)
         IN  <<Entry(doc.title, doc.link, i.title, i.link, when.t)>>
             \o atomEntries(doc, k + 1)

RECURSIVE rssEntries(_, _)
rssEntries(doc, k) ==
    IF k > Len(doc.items) THEN <<>>
    ELSE LET i == doc.items[k]
             when == parseRssTimes(i.when)
         IN  <<Entry(doc.title, doc.link, i.title, i.link, when.t)>>
             \o rssEntries(doc, k + 1)

UnmarshalXMLAlwaysAtom(doc) == [atom |-> "set", rss |-> "nil"]

\* Feed.UnmarshalXML: root "rss" fills feed.rss, anything else feed.atom.
UnmarshalXML(doc) ==
    IF doc.root = "rss" THEN [atom |-> "nil", rss |-> "set"]
                        ELSE [atom |-> "set", rss |-> "nil"]

\* tryParse on a body: body.bad marks a body xml.Decoder rejects.  With
\* feed.atom nil the else branch reads feed.rss.Channel, which panics on a
\* nil feed.rss.
tryParse(body) ==
    IF body.bad THEN [err |-> TRUE, panic |-> FALSE, entries |-> <<>>]
    ELSE LET feed == UnmarshalXML(body.doc)
         IN  IF feed.atom # "nil"
             THEN [err |-> FALSE, panic |-> FALSE,
                   entries |-> atomEntries(body.doc, 1)]
             ELSE IF feed.rss = "nil"
             THEN [err |-> FALSE, panic |-> TRUE, entries |-> <<>>]
             ELSE [err |-> FALSE, panic |-> FALSE,
                   entries |-> rssEntries(body.doc, 1)]

\* url.Parse
urlParseErr(s) == s = BadUrl

\* What http.Get returns: a transport error, or a response with a status
\* code and a body.  A response with any status code comes with a nil error.
NetErr == [neterr |-> TRUE, status |-> 0, bad |-> FALSE, doc |-> Doc(EmptyUrl)]
Resp(status, bad, doc) ==
    [neterr |-> FALSE, status |-> status, bad |-> bad, doc |-> doc]

\* The responses met in the pipeline.  The host of feed A is at times
\* unreachable, feed B at times serves a body that is not XML, and either
\* can serve its document under an error status.
Responses(s) ==
    IF s = UrlB
    THEN {Resp(200, TRUE, Doc(s)), Resp(200, FALSE, Doc(s)), Resp(500, FALSE, Doc(s))}
    ELSE {NetErr, Resp(200, FALSE, Doc(s)), Resp(500, FALSE, Doc(s))}

ErrMsgNoUrl(s, cause) == <<"", cause>>

\* errors.New(s + ": " + err.Error()): the URL and the cause.
ErrMsg(s, cause) == <<s, cause>>
NoErr == <<"", "">>

getFeedMsgRetry(s, resp) ==
    IF urlParseErr(s)
    THEN [ch |-> "ec", err |-> ErrMsg(s, "url.Parse"), entries |-> <<>>,
          gets |-> 0]
    ELSE IF resp.neterr
    THEN [ch |-> "ec", err |-> ErrMsg(s, "http.Get"), entries |-> <<>>,
          gets |-> 2]
    ELSE LET p == tryParse([bad |-> resp.bad, doc |-> resp.doc])
         IN  IF p.panic
             THEN [ch |-> "panic", err |-> NoErr, entries |-> <<>>, gets |-> 1]
             ELSE IF p.err
             THEN [ch |-> "ec", err |-> ErrMsg(s, "xml"), entries |-> <<>>,
                   gets |-> 1]
             ELSE [ch |-> "fc", err |-> NoErr, entries |-> p.entries,
                   gets |-> 1]

\* getFeed(s, fc, ec) up to its channel send: the message it will send and
\* the number of http.Get calls it made.  resp.status is read nowhere.
getFeedMsg(s, resp) ==
    IF urlParseErr(s)
    THEN [ch |-> "ec", err |-> ErrMsg(s, "url.Parse"), entries |-> <<>>,
          gets |-> 0]
    ELSE IF resp.neterr
    THEN [ch |-> "ec", err |-> ErrMsg(s, "http.Get"), entries |-> <<>>,
          gets |-> 1]
    ELSE LET p == tryParse([bad |-> resp.bad, doc |-> resp.doc])
         IN  IF p.panic
             THEN [ch |-> "panic", err |-> NoErr, entries |-> <<>>, gets |-> 1]
             ELSE IF p.err
             THEN [ch |-> "ec", err |-> ErrMsg(s, "xml"), entries |-> <<>>,
                   gets |-> 1]
             ELSE [ch |-> "fc", err |-> NoErr, entries |-> p.entries,
                   gets |-> 1]

\* ------------------------------------------------------------ gob encoding
\* encoding/gob omits zero-valued struct fields on the wire and the decoder
\* leaves omitted fields at their zero value.
EntryFields == {"FeedName", "FeedURL", "Title", "URL", "When"}
ZeroOf(f) == IF f = "When" THEN ZeroTime ELSE ""

gobEncodeEntryNoWhen(e) ==
    {<<f, e[f]>> : f \in {x \in EntryFields \ {"When"} : e[x] # ZeroOf(x)}}

gobEncodeEntry(e) == {<<f, e[f]>> : f \in {x \in EntryFields : e[x] # ZeroOf(x)}}
gobDecodeEntry(w) ==
    [f \in EntryFields |->
        IF \E p \in w : p[1] = f
        THEN (CHOOSE p \in w : p[1] = f)[2]
        ELSE ZeroOf(f)]

gobEncode(s) == [k \in 1..Len(s) |-> gobEncodeEntry(s[k])]
gobDecode(b) == [k \in 1..Len(b) |-> gobDecodeEntry(b[k])]

\* ---------------------------------------------------------- filterEntries
AfterOrEqual(a, b) == a >= b

\* Time.After on instants
After(a, b) == a > b

RECURSIVE keepAfter(_, _)
keepAfter(feeds, begin) ==
    IF feeds = <<>> THEN <<>>
    ELSE (IF After(Head(feeds).When, begin) THEN <<Head(feeds)>> ELSE <<>>)
         \o keepAfter(Tail(feeds), begin)

swap(s, i, j) == [s EXCEPT ![i] = s[j], ![j] = s[i]]

\* sort.Slice on a short slice is an insertion sort with the given less.
RECURSIVE sinkDown(_, _)
sinkDown(s, j) ==
    IF j > 1 /\ After(s[j].When, s[j - 1].When)
    THEN sinkDown(swap(s, j, j - 1), j - 1)
    ELSE s

RECURSIVE sortFrom(_, _)
sortFrom(s, i) ==
    IF i > Len(s) THEN s ELSE sortFrom(sinkDown(s, i), i + 1)

sortSlice(s) == sortFrom(s, 2)

filterEntries(feeds, begin) == sortSlice(keepAfter(feeds, begin))

\* ------------------------------------------------------------------ state
VARIABLES
    urls,         \* main: the URL list handed to fetchFeeds
    file,         \* the cache file: [st, data]
    exited,       \* os.Exit(1) was called
    cpc,          \* feedCache: at its "select", or in saveFeeds ("save")
    feedz,        \* feedCache: the current snapshot
    ppc,          \* fetchFeeds/fetch: position of the poller
    loaded,       \* fetchFeeds: the snapshot decoded from the cache file
    n,            \* fetch: number of getFeed goroutines launched
    i,            \* fetch: loop index of the join
    feeds,        \* fetch: the batch being aggregated
    errs,         \* fetch: the errors collected
    logged,       \* the "Problem:" lines logged by the current fetch
    g,            \* the getFeed goroutines of the current fetch
    ticker,       \* time.Tick was called
    tickPending,  \* a tick sits in the ticker's one-slot channel
    fired,        \* ticks fired so far
    polls,        \* history: ticks received by the range loop
    overrun,      \* history: ticks fired during the fetch call that is
                  \* running (now) and during the one before it (last)
    rpc,          \* listFeeds of each reader: "idle" or "waiting"
    got,          \* listFeeds: the snapshot received on toShow
    lastSent,     \* history: the batch the poller last sent on toSave
    nsent,        \* history: sends on toSave by the current fetch call
    fpc,          \* a function applied on its own: before or after the call
    fin,          \* its argument
    fbegin,       \* the cutoff argument of filterEntries
    fout          \* its result

cacheVars == <<cpc, feedz>>
pollVars == <<ppc, loaded, n, i, feeds, errs, logged>>
timerVars == <<ticker, tickPending, fired, polls, overrun>>
readVars == <<rpc, got>>
histVars == <<lastSent, nsent>>
filterVars == <<fpc, fin, fbegin, fout>>
vars == <<urls, file, exited, cacheVars, pollVars, g, timerVars, readVars,
          histVars, filterVars>>

Readers == 1..NReaders

RECURSIVE SeqsUpTo(_, _)
SeqsUpTo(S, k) ==
    IF k = 0 THEN {<<>>}
    ELSE LET shorter == SeqsUpTo(S, k - 1)
         IN  shorter \cup {Append(q, x) : q \in {r \in shorter : Len(r) = k - 1}, x \in S}

\* fetch launches every getFeed before it receives from any, and the
\* goroutines differ only in their URL, so the order of the list does not
\* matter: one list per multiset of URLs is explored.
UrlRank(u) == CHOOSE r \in 1..4 : <<EmptyUrl, BadUrl, UrlA, UrlB>>[r] = u
Ordered(us) == \A j \in 1..Len(us) - 1 : UrlRank(us[j]) <= UrlRank(us[j + 1])
UrlLists == {us \in SeqsUpTo(Urls, MaxUrls) : Ordered(us)}

\* Snapshots an earlier run can have left in the cache file.
SavedSnapshots ==
    {rssEntries(Doc(UrlB), 1) \o atomEntries(Doc(UrlA), 1)}

InitFiles ==
    {[st |-> "missing", data |-> <<>>], [st |-> "garbage", data |-> <<>>]}
    \cup {[st |-> "ok", data |-> gobEncode(snap)] : snap \in SavedSnapshots}

NoMsg == [ch |-> "", err |-> NoErr, entries |-> <<>>, gets |-> 0]

PipelineInit ==
    /\ exited = FALSE
    /\ cpc = "select" /\ feedz = <<>>
    /\ ppc = "open" /\ loaded = <<>>
    /\ n = 0 /\ i = 0 /\ feeds = <<>> /\ errs = <<>> /\ logged = <<>>
    /\ g = [k \in 1..Len(urls) |-> [pc |-> "none", msg |-> NoMsg]]
    /\ ticker = FALSE /\ tickPending = FALSE /\ fired = 0 /\ polls = 0
    /\ overrun = [now |-> 0, last |-> 0]
    /\ rpc = [r \in Readers |-> "idle"]
    /\ got = [r \in Readers |-> <<>>]
    /\ lastSent = <<>> /\ nsent = 0

FilterIdle == fpc = "off" /\ fin = <<>> /\ fbegin = ZeroTime /\ fout = <<>>

\* main: the command line.  args are the positional arguments, feeds the
\* -feeds flag and lines the lines of the file it names.
Configs ==
    {[args |-> us, feeds |-> "", lines |-> <<>>] : us \in UrlLists}
    \cup {[args |-> <<>>, feeds |-> "feeds.txt", lines |-> us] : us \in UrlLists}

\* Lines 31-34: the only exit for want of URLs.
mainExits(c) == Len(c.args) = 0 /\ c.feeds = ""

\* Lines 36-51: the arguments, then every line of the feeds file.
buildUrls(c) == c.args \o (IF c.feeds # "" THEN c.lines ELSE <<>>)

Init ==
    /\ urls \in {buildUrls(c) : c \in {d \in Configs : ~mainExits(d)}}
    /\ file \in InitFiles
    /\ PipelineInit
    /\ FilterIdle

\* --------------------------------------------------------------- feedCache
CacheReadyNonEmpty == cpc = "select" /\ feedz # <<>>

CacheReadyWhileSaving == TRUE

\* The actor sits at its select (line 87) and can take either case.
CacheReady == cpc = "select"

InstalledAppended(old, batch) == old \o batch

\* case feedz = <-toSave: the received batch replaces the snapshot.
Installed(old, batch) == batch

maybeDieNever(err) == FALSE

\* maybeDie(err): exits exactly on a non-nil error.
maybeDie(err) == err

\* case toShow <- feedz, met by feeds := <-fc in listFeeds.  What listFeeds
\* does next, filterEntries and the template, works on its own copy and
\* changes nothing here; filterEntries is modelled on its own below.
Serve(r) ==
    /\ ~exited /\ CacheReady
    /\ rpc[r] = "waiting"
    /\ got' = [got EXCEPT ![r] = feedz]
    /\ rpc' = [rpc EXCEPT ![r] = "idle"]
    /\ UNCHANGED <<urls, file, exited, cacheVars, pollVars, g, timerVars,
                   histVars, filterVars>>

\* saveFeeds: os.Create truncates the file or fails, and a failure goes to
\* maybeDie; enc.Encode writes the snapshot, its error is dropped, so a
\* failed write leaves the truncated file and saveFeeds returns.
saveFeeds ==
    /\ ~exited /\ cpc = "save"
    /\ \E createErr, encodeErr \in BOOLEAN :
        IF maybeDie(createErr)
        THEN /\ exited' = TRUE
             /\ UNCHANGED <<file, cpc>>
        ELSE /\ file' = IF createErr THEN file
                        ELSE IF encodeErr THEN [st |-> "garbage", data |-> <<>>]
                        ELSE [st |-> "ok", data |-> gobEncode(feedz)]
             /\ cpc' = "select"
             /\ UNCHANGED exited
    /\ UNCHANGED <<urls, feedz, pollVars, g, timerVars, readVars, histVars,
                   filterVars>>

\* ---------------------------------------------------------------- readers
\* An HTTP request arrives and its handler calls listFeeds, whose locals
\* start fresh.
Request(r) ==
    /\ ~exited
    /\ rpc[r] = "idle"
    /\ rpc' = [rpc EXCEPT ![r] = "waiting"]
    /\ got' = [got EXCEPT ![r] = <<>>]
    /\ UNCHANGED <<urls, file, exited, cacheVars, pollVars, g, timerVars,
                   histVars, filterVars>>

\* ------------------------------------------------------------- fetchFeeds
openErrInverted(f) == f.st # "missing"

\* os.Open(*cache): fails when there is no file.
openErr(f) == f.st = "missing"

Open ==
    /\ ~exited /\ ppc = "open"
    /\ ppc' = IF openErr(file) THEN "fetch" ELSE "decode"
    /\ UNCHANGED <<urls, file, exited, cacheVars, loaded, n, i, feeds, errs, logged, g, timerVars, readVars, histVars, filterVars>>

PollerHoldsFileDeferred ==
    ppc \in {"decode", "sendLoaded"} \/ (ppc = "tickwait" /\ nsent = 0)

\* fetchFeeds has the cache file open from os.Open (line 106) to f.Close()
\* (line 113), saveFeeds from os.Create to its return.
PollerHoldsFile == ppc = "decode"
CacheHoldsFile == cpc = "save"

\* dec.Decode(&feeds); f.Close(); maybeDie(err)
Decode ==
    /\ ~exited /\ ppc = "decode"
    /\ LET err == file.st # "ok"
       IN  IF maybeDie(err)
           THEN /\ exited' = TRUE
                /\ UNCHANGED <<ppc, loaded>>
           ELSE /\ loaded' = IF err THEN <<>> ELSE gobDecode(file.data)
                /\ ppc' = "sendLoaded"
                /\ UNCHANGED exited
    /\ UNCHANGED <<urls, file, cacheVars, n, i, feeds, errs, logged, g,
                   timerVars, readVars, histVars, filterVars>>

\* db <- feeds (line 115) met by feedz = <-toSave; then time.Tick.
SendLoaded ==
    /\ ~exited /\ ppc = "sendLoaded" /\ CacheReady
    /\ feedz' = Installed(feedz, loaded)
    /\ cpc' = "save"
    /\ lastSent' = loaded
    /\ ppc' = "tickwait"
    /\ ticker' = TRUE
    /\ UNCHANGED <<urls, file, exited, loaded, n, i, feeds, errs, logged,
                   g, tickPending, fired, polls, overrun, readVars, nsent, filterVars>>

\* ------------------------------------------------------------------ fetch
LaunchedAll(us) == 1..Len(us)

\* Lines 133-135: an empty string is skipped.
Launched(us) == {k \in 1..Len(us) : Len(us[k]) # 0}

\* Lines 125-139: the launch loop.
FetchStart ==
    /\ ~exited /\ ppc = "fetch"
    /\ n' = Cardinality(Launched(urls))
    /\ g' = [k \in 1..Len(urls) |->
                [pc |-> IF k \in Launched(urls) THEN "run" ELSE "none",
                 msg |-> NoMsg]]
    /\ feeds' = <<>> /\ errs' = <<>> /\ i' = 0
    /\ logged' = <<>> /\ nsent' = 0
    /\ overrun' = [overrun EXCEPT !.last = 0]
    /\ ppc' = "join"
    /\ UNCHANGED <<urls, file, exited, cacheVars, loaded, ticker, tickPending,
                   fired, polls, readVars, lastSent, filterVars>>

JoinDoneEarly == ~(i < n - 1)

\* The join loop runs while i < n.
JoinDone == ~(i < n)

AggregateOverwrite(batch, f) == f

\* feeds = append(feeds, f...)
Aggregate(batch, f) == batch \o f

CollectLast(es, e) == <<e>>

\* errs = append(errs, e)
Collect(es, e) == Append(es, e)

\* getFeed(urls[k], fc, ec) runs to its send, and the join loop takes the
\* message in one iteration: case f := <-fc or case e := <-ec.  A panic in
\* the goroutine ends the process.
GetFeed(k) ==
    /\ ~exited /\ ppc = "join" /\ ~JoinDone
    /\ g[k].pc = "run"
    /\ \E resp \in Responses(urls[k]) :
        LET msg == getFeedMsg(urls[k], resp)
        IN  IF msg.ch = "panic"
            THEN /\ exited' = TRUE
                 /\ UNCHANGED <<g, feeds, errs, i>>
            ELSE /\ g' = [g EXCEPT ![k] = [pc |-> "done", msg |-> msg]]
                 /\ IF msg.ch = "fc"
                    THEN /\ feeds' = Aggregate(feeds, msg.entries)
                         /\ UNCHANGED errs
                    ELSE /\ errs' = Collect(errs, msg.err)
                         /\ UNCHANGED feeds
                 /\ i' = i + 1
                 /\ UNCHANGED exited
    /\ UNCHANGED <<urls, file, cacheVars, ppc, loaded, n, logged,
                   timerVars, readVars, histVars, filterVars>>

\* db <- feeds (line 150) met by feedz = <-toSave.
SendBatch ==
    /\ ~exited /\ ppc = "join" /\ JoinDone /\ CacheReady
    /\ feedz' = Installed(feedz, feeds)
    /\ cpc' = "save"
    /\ lastSent' = feeds
    /\ nsent' = nsent + 1
    /\ ppc' = "log"
    /\ UNCHANGED <<urls, file, exited, loaded, n, i, feeds, errs, logged,
                   g, timerVars, readVars, filterVars>>

\* Lines 152-155: every collected error is logged, then "Done fetching."
\* and the return to fetchFeeds, which waits on the ticker (created by
\* time.Tick after the first batch).
RECURSIVE logFrom(_, _, _)
logFrom(log, es, k) ==
    IF k > Len(es) THEN log ELSE logFrom(Append(log, es[k]), es, k + 1)

FetchReturn ==
    /\ ~exited /\ ppc = "log"
    /\ logged' = logFrom(logged, errs, 1)
    /\ ppc' = "tickwait"
    /\ ticker' = TRUE
    /\ UNCHANGED <<urls, file, exited, cacheVars, loaded, n, i, feeds, errs,
                   g, tickPending, fired, polls, overrun, readVars, histVars, filterVars>>

TakenStays(pending) == pending

\* The range loop receives the tick: the ticker's channel is empty again.
Taken(pending) == FALSE

\* The ticker fires; its channel holds one tick, a second one is dropped.
TimerFireUpTo(m) ==
    /\ ~exited /\ ticker /\ fired < m
    /\ fired' = fired + 1
    /\ tickPending' = TRUE
    /\ overrun' = IF ppc \in {"fetch", "join", "log"}
                  THEN [overrun EXCEPT !.now = @ + 1] ELSE overrun
    /\ UNCHANGED <<urls, file, exited, cacheVars, pollVars, g, ticker, polls,
                   readVars, histVars, filterVars>>

TimerFire == TimerFireUpTo(MaxTicks)

\* for _ = range tt { fetch(db, urls) }
PollOnTick ==
    /\ ~exited /\ ppc = "tickwait" /\ tickPending
    /\ tickPending' = Taken(tickPending)
    /\ polls' = polls + 1
    /\ overrun' = [now |-> 0, last |-> overrun.now]
    /\ ppc' = "fetch"
    /\ UNCHANGED <<urls, file, exited, cacheVars, loaded, n, i, feeds, errs,
                   logged, g, ticker, fired, readVars, histVars, filterVars>>

Next ==
    \/ Open
    \/ Decode
    \/ SendLoaded
    \/ FetchStart
    \/ \E k \in 1..Len(urls) : GetFeed(k)
    \/ SendBatch
    \/ FetchReturn
    \/ TimerFire
    \/ PollOnTick
    \/ saveFeeds
    \/ \E r \in Readers : Request(r)
    \/ \E r \in Readers : Serve(r)

Spec == Init /\ [][Next]_vars

\* ------------------------------------------- hung fetches and fair scheduling
\* http.Get is called without a timeout: a request that is never answered
\* leaves its getFeed in the call for good.
Hang(k) ==
    /\ ~exited /\ ppc = "join"
    /\ g[k].pc = "run" /\ ~urlParseErr(urls[k])
    /\ g' = [g EXCEPT ![k].pc = "hung"]
    /\ UNCHANGED <<urls, file, exited, cacheVars, pollVars, timerVars,
                   readVars, histVars, filterVars>>

\* One feed and one reader more than NReaders.
LiveReaders == 1..(NReaders + 1)

InitFair ==
    /\ urls = <<UrlA>>
    /\ file \in InitFiles
    /\ exited = FALSE
    /\ cpc = "select" /\ feedz = <<>>
    /\ ppc = "open" /\ loaded = <<>>
    /\ n = 0 /\ i = 0 /\ feeds = <<>> /\ errs = <<>> /\ logged = <<>>
    /\ g = [k \in 1..Len(urls) |-> [pc |-> "none", msg |-> NoMsg]]
    /\ ticker = FALSE /\ tickPending = FALSE /\ fired = 0 /\ polls = 0
    /\ overrun = [now |-> 0, last |-> 0]
    /\ rpc = [r \in LiveReaders |-> "idle"]
    /\ got = [r \in LiveReaders |-> <<>>]
    /\ lastSent = <<>> /\ nsent = 0
    /\ FilterIdle

NextFair ==
    \/ Open
    \/ Decode
    \/ SendLoaded
    \/ FetchStart
    \/ \E k \in 1..Len(urls) : GetFeed(k)
    \/ \E k \in 1..Len(urls) : Hang(k)
    \/ SendBatch
    \/ FetchReturn
    \/ TimerFire
    \/ PollOnTick
    \/ saveFeeds
    \/ \E r \in LiveReaders : Request(r)
    \/ \E r \in LiveReaders : Serve(r)

\* saveFeeds returns or exits; the select of feedCache chooses at random
\* among its ready cases, so a case that is ready again and again is taken.
Fairness ==
    /\ WF_vars(saveFeeds)
    /\ SF_vars(SendLoaded)
    /\ SF_vars(SendBatch)
    /\ \A r \in LiveReaders : SF_vars(Serve(r))

SpecFair == InitFair /\ [][NextFair]_vars /\ Fairness

\* ------------------------------------------------- the ticker over more ticks
\* One feed and no readers, with the ticker firing up to MaxOverrun times.
InitTicks ==
    /\ urls = <<UrlA>>
    /\ file \in InitFiles
    /\ PipelineInit
    /\ FilterIdle

NextTicks ==
    \/ Open
    \/ Decode
    \/ SendLoaded
    \/ FetchStart
    \/ \E k \in 1..Len(urls) : GetFeed(k)
    \/ SendBatch
    \/ FetchReturn
    \/ TimerFireUpTo(MaxOverrun)
    \/ PollOnTick
    \/ saveFeeds

SpecTicks == InitTicks /\ [][NextTicks]_vars

\* ------------------------------------------------- filterEntries on its own
FilterEntries ==
    {Entry("F", "http://f/", t, "http://f/x", w) : t \in {"x", "y"}, w \in 0..MaxWhen}

InitFilter ==
    /\ urls = <<>>
    /\ file = [st |-> "missing", data |-> <<>>]
    /\ PipelineInit
    /\ fpc = "in"
    /\ fin \in SeqsUpTo(FilterEntries, MaxLen)
    /\ fbegin \in 0..MaxWhen
    /\ fout = <<>>

ApplyFilter ==
    /\ fpc = "in"
    /\ fout' = filterEntries(fin, fbegin)
    /\ fpc' = "out"
    /\ UNCHANGED <<urls, file, exited, cacheVars, pollVars, g, timerVars,
                   readVars, histVars, fin, fbegin>>

NextFilter == ApplyFilter

SpecFilter == InitFilter /\ [][NextFilter]_vars

\* ------------------------------------------------------- getFeed on its own
\* Documents of up to MaxItems items.  A root other than "rss" carries its
\* items as entry elements, the root "rss" as channel items.
DocLayouts == {"RFC3339", "RFC822", "RFC822Z", "RFC1123", "RFC1123Z", "garbage"}
DocItems ==
    {[title |-> t, link |-> "http://d/" \o t, when |-> [layout |-> l, t |-> 2]] :
        t \in {"x", "y"}, l \in DocLayouts}
Docs ==
    {[root |-> r, title |-> t, link |-> "http://d/home", items |-> is] :
        r \in {"rss", "feed", "html"}, t \in {"Feed P", "Feed Q"},
        is \in SeqsUpTo(DocItems, MaxItems)}

Statuses == {200, 404, 500}

ParseResponses ==
    {NetErr}
    \cup {Resp(st, TRUE, Doc(EmptyUrl)) : st \in Statuses}
    \cup {Resp(st, FALSE, d) : st \in Statuses, d \in Docs}

InitParse ==
    /\ urls = <<>>
    /\ file = [st |-> "missing", data |-> <<>>]
    /\ PipelineInit
    /\ fpc = "get"
    /\ fin \in {[url |-> u, resp |-> r] : u \in {UrlA, BadUrl}, r \in ParseResponses}
    /\ fbegin = ZeroTime
    /\ fout = NoMsg

ApplyGetFeed ==
    /\ fpc = "get"
    /\ fout' = getFeedMsg(fin.url, fin.resp)
    /\ fpc' = "got"
    /\ UNCHANGED <<urls, file, exited, cacheVars, pollVars, g, timerVars,
                   readVars, histVars, fin, fbegin>>

NextParse == ApplyGetFeed

SpecParse == InitParse /\ [][NextParse]_vars

\* ================================================================= claims
CountIn(q, e) == Cardinality({j \in 1..Len(q) : q[j] = e})
Range(q) == {q[j] : j \in 1..Len(q)}

\* The steps in which a channel communication of the cache actor happens.
ServeStep(r) == rpc[r] = "waiting" /\ rpc'[r] = "idle"
ReceiveStep ==
    \/ ppc = "sendLoaded" /\ ppc' = "tickwait"
    \/ ppc = "join" /\ ppc' = "log"
Saving == cpc # "select"

\* C1: every read served by feedCache returns, whole, the batch the poller
\* most recently sent on toSave (empty before the first one); this includes
\* reads issued while an install was pending.
C1_ReadIsLastBatch ==
    [][\A r \in Readers : ServeStep(r) => got'[r] = lastSent /\ got'[r] = feedz]_vars

\* A read returned the non-empty snapshot of a later install.
C1_Witness ==
    \E r \in Readers :
        /\ rpc[r] = "idle"
        /\ got[r] # <<>> /\ got[r] = lastSent
        /\ ticker /\ nsent = 1

\* C2: from the receive on toSave to the return of saveFeeds the actor
\* serves no read and receives no second batch; the snapshot is replaced in
\* the receive step, before the file is touched, and the file is written
\* only inside saveFeeds with the snapshot already in place.
C2_InstallIsExclusive ==
    [][ /\ Saving => ~ReceiveStep /\ \A r \in Readers : ~ServeStep(r)
        /\ ReceiveStep => feedz' = lastSent' /\ cpc' = "save" /\ file' = file
        /\ file' # file => Saving /\ feedz' = feedz /\ feedz = lastSent ]_vars

\* A reader and the poller both wait while saveFeeds is writing.
C2_Witness ==
    /\ cpc = "save"
    /\ ppc = "join" /\ JoinDone
    /\ \E r \in Readers : rpc[r] = "waiting"

Collected == {k \in 1..Len(urls) : g[k].pc = "done"}

\* C3: a call of fetch sends at most one batch, has sent exactly one when it
\* returns, and sends it only when every launched getFeed has been received
\* from (N of N, with N the number of launched fetches, also N = 0).
C3_OneBatchAfterJoin ==
    [][ /\ nsent' <= 1
        /\ (ppc = "log" /\ ppc' = "tickwait") => nsent = 1
        /\ (ppc = "join" /\ ppc' = "log") =>
              /\ nsent = 0 /\ nsent' = 1
              /\ i = n /\ n = Cardinality(Launched(urls))
              /\ Collected = Launched(urls)
              /\ Len(errs) + Cardinality({k \in Collected : g[k].msg.ch = "fc"}) = n
      ]_vars

\* A fetch of two feeds, one of which failed, has delivered and returned.
C3_Witness ==
    /\ ppc = "tickwait" /\ nsent = 1
    /\ n >= 2 /\ Len(errs) >= 1 /\ Len(errs) < n

\* What the getFeed goroutines 1..k sent on fc, counted per entry.
RECURSIVE FcCount(_, _)
FcCount(e, k) ==
    IF k = 0 THEN 0
    ELSE (IF g[k].pc = "done" /\ g[k].msg.ch = "fc"
          THEN CountIn(g[k].msg.entries, e) ELSE 0) + FcCount(e, k - 1)

RECURSIVE ItemCount(_)
ItemCount(k) ==
    IF k = 0 THEN 0
    ELSE (IF k \in Launched(urls) THEN Len(Doc(urls[k]).items) ELSE 0)
         + ItemCount(k - 1)

SentEntries ==
    UNION {Range(g[k].msg.entries) : k \in 1..Len(urls)}

Delivered == nsent = 1
AllSucceeded == \A k \in Launched(urls) : g[k].msg.ch = "fc"

\* C4: when every launched fetch succeeded, the delivered batch holds each
\* entry exactly as often as the getFeed goroutines returned it, and its
\* size is the sum of the feeds' item counts.
C4_BatchIsUnion ==
    (Delivered /\ AllSucceeded) =>
        /\ \A e \in SentEntries \cup Range(lastSent) :
              CountIn(lastSent, e) = FcCount(e, Len(urls))
        /\ Len(lastSent) = ItemCount(Len(urls))

\* Two feeds succeeded and all their entries were delivered.
C4_Witness ==
    /\ Delivered /\ AllSucceeded
    /\ n >= 2 /\ Len(lastSent) >= 3

Failing == {k \in Launched(urls) : g[k].msg.ch = "ec"}

\* C5: whatever subset of the feeds fails, the delivered batch holds exactly
\* the entries of the succeeding feeds, one error is collected per failing
\* feed, and when fetch returns it has logged one line per failing feed.
C5_FailuresAreIsolated ==
    Delivered =>
        /\ \A e \in SentEntries \cup Range(lastSent) :
              CountIn(lastSent, e) = FcCount(e, Len(urls))
        /\ Len(errs) = Cardinality(Failing)
        /\ \A k \in Failing : CountIn(errs, g[k].msg.err) >= 1
        /\ ppc = "tickwait" => logged = errs

\* One malformed URL next to a feed that succeeded: one error logged, the
\* feed's entries delivered.
C5_Witness ==
    /\ Delivered /\ ppc = "tickwait"
    /\ Len(logged) = 1 /\ logged[1][1] = BadUrl
    /\ n = 2 /\ lastSent # <<>>

\* C6: a failure while persisting a snapshot, in os.Create or in the
\* encoding and writing, ends the process: saveFeeds never returns to a
\* running process without the snapshot on disk, and it leaves the
\* in-memory snapshot as it is.
C6_PersistFailureIsFatal ==
    [][ /\ Saving => feedz' = feedz
        /\ (Saving /\ cpc' = "select" /\ ~exited') =>
              file' = [st |-> "ok", data |-> gobEncode(feedz)] ]_vars

Whens(q) == [j \in 1..Len(q) |-> q[j].When]

\* C7: with the zero cutoff filterEntries returns every entry of the
\* snapshot, the entries with a zero When included and placed last.
C7_UnsetCutoffKeepsAll ==
    (fpc = "out" /\ fbegin = ZeroTime) =>
        /\ \A e \in Range(fin) : CountIn(fout, e) = CountIn(fin, e)
        /\ \A j \in 1..Len(fout) - 1 :
              fout[j].When = ZeroTime => fout[j + 1].When = ZeroTime

\* C8: filterEntries returns exactly the entries whose When is strictly
\* after the cutoff, each as often as the snapshot holds it, most recent
\* first.
C8_FilterStrictDescending ==
    fpc = "out" =>
        /\ \A e \in Range(fin) \cup Range(fout) :
              CountIn(fout, e) = IF e.When > fbegin THEN CountIn(fin, e) ELSE 0
        /\ \A j \in 1..Len(fout) - 1 : fout[j].When >= fout[j + 1].When

\* Timestamps 1, 3, 2 in snapshot order with cutoff 1 give 3, 2.
C8_Witness ==
    /\ fpc = "out" /\ fbegin = 1
    /\ Whens(fin) = <<1, 3, 2>>
    /\ Whens(fout) = <<3, 2>>

\* A send on toSave made before time.Tick is called.
FirstSend == ReceiveStep /\ ~ticker
FetchCalled == ppc' = "fetch" /\ ppc # "fetch"

\* C9: the first batch sent to the cache actor is the decoded cache file
\* when the file opens, and then every fetch is started by a tick; when the
\* file does not open, the first batch is that of a fetch called before any
\* tick.
C9_StartupSource ==
    [][ /\ (FirstSend /\ file.st # "missing") =>
              /\ ppc = "sendLoaded"
              /\ lastSent' = gobDecode(file.data)
              /\ nsent = 0 /\ \A k \in 1..Len(urls) : g[k].pc = "none"
        /\ (FirstSend /\ file.st = "missing") =>
              ppc = "join" /\ lastSent' = feeds /\ fired = 0
        /\ FetchCalled =>
              \/ ppc = "open" /\ file.st = "missing"
              \/ ppc = "tickwait" /\ tickPending /\ ~tickPending' ]_vars

\* The saved snapshot was installed and the poller waits for the first tick
\* without having fetched.
C9_Witness ==
    /\ ppc = "tickwait" /\ fired = 0
    /\ loaded # <<>> /\ lastSent = loaded /\ feedz = loaded
    /\ \A k \in 1..Len(urls) : g[k].pc = "none"

\* The cache file is undecodable and nothing has been sent yet.
CorruptAtStartup == file.st = "garbage" /\ ~ticker /\ nsent = 0 /\ ~Saving

\* C10: with an undecodable cache file the poller never gets past the
\* decode: nothing is sent or installed, no getFeed is launched, the file
\* stays as it is and the process exits there; with a missing file the
\* poller never decodes and the process does not exit at startup.
C10_CorruptCacheIsFatal ==
    /\ CorruptAtStartup =>
          /\ ppc \in {"open", "decode"}
          /\ feedz = <<>> /\ lastSent = <<>>
          /\ \A k \in 1..Len(urls) : g[k].pc = "none"
          /\ exited => ppc = "decode"
    /\ file.st = "missing" =>
          /\ ppc \notin {"decode", "sendLoaded"}
          /\ exited => cpc = "save"

\* The process has exited in the decode of an undecodable cache file.
C10_Witness ==
    /\ exited /\ ppc = "decode" /\ file.st = "garbage"
    /\ feedz = <<>> /\ cpc = "select"

\* getFeed returned from http.Get with a response, whatever its status.
Responded == fpc = "got" /\ ~urlParseErr(fin.url) /\ ~fin.resp.neterr
Is2xx(st) == st >= 200 /\ st < 300

\* C11: a response whose status is not 2xx makes getFeed report an error
\* that names the URL, and the feed contributes no entries.
C11_Non2xxIsFetchError ==
    (Responded /\ ~Is2xx(fin.resp.status))
        => fout.ch = "ec" /\ fout.err[1] = fin.url /\ fout.entries = <<>>

Pending01(p) == IF p THEN 1 ELSE 0

\* C12: once the ticker exists fetch is called only by the range loop taking
\* a tick, with the previous call returned and none of its goroutines left;
\* taking the tick leaves none pending, however many fired in the meantime,
\* so the ticks taken and pending never exceed the ticks fired.
C12_PollsFollowTicks ==
    [][ /\ (FetchCalled /\ ticker) =>
            /\ ppc = "tickwait" /\ tickPending
            /\ polls' = polls + 1
            /\ \A k \in 1..Len(urls) : g[k].pc # "run"
        /\ (ppc = "tickwait" /\ ppc' = "fetch") => ~tickPending'
        /\ polls' + Pending01(tickPending') <= fired'
      ]_vars

\* Two ticks fired during the first poll on a tick; the second poll has
\* begun and no tick is left.
C12_Witness ==
    /\ ppc = "fetch" /\ polls = 2
    /\ overrun.last = 2
    /\ ~tickPending

\* The poller is past the startup load and the actor is not in saveFeeds.
Settled == ~Saving /\ ppc \notin {"open", "decode", "sendLoaded"}

\* C13: what fetchFeeds decodes from the cache file at startup is the
\* snapshot the earlier run saved, and whenever saveFeeds has written the
\* file, decoding it gives the snapshot that was saved, the empty one
\* included.
C13_GobRoundTrip ==
    /\ ppc = "sendLoaded" => loaded \in SavedSnapshots
    /\ (Settled /\ file.st = "ok") => gobDecode(file.data) = feedz

\* A snapshot with an unset timestamp was loaded, and later the empty
\* snapshot was installed and written.
C13_Witness ==
    /\ \E j \in 1..Len(loaded) : loaded[j].When = ZeroTime
    /\ Settled /\ nsent = 1
    /\ feedz = <<>> /\ file = [st |-> "ok", data |-> <<>>]

\* C14: in every fetch call a getFeed that has run made exactly one http.Get
\* when its URL parses and none when it does not, also when it failed; a
\* goroutine that has not run, or was not launched, made none.
C14_OneGetPerFeed ==
    \A k \in 1..Len(urls) :
        /\ k \notin Launched(urls) => g[k].pc = "none"
        /\ g[k].pc = "done" =>
              g[k].msg.gets = (IF urls[k] = BadUrl THEN 0 ELSE 1)
        /\ g[k].pc # "done" => g[k].msg.gets = 0

\* In a poll on a tick, a malformed URL was rejected without a request and
\* a feed whose request failed was asked once.
C14_Witness ==
    /\ polls = 1 /\ ppc = "join" /\ JoinDone
    /\ \E k \in 1..Len(urls) :
          urls[k] = BadUrl /\ g[k].pc = "done" /\ g[k].msg.gets = 0
    /\ \E k \in 1..Len(urls) :
          g[k].msg.err = ErrMsg(UrlA, "http.Get") /\ g[k].msg.gets = 1

\* C15: nothing is logged while fetch is in its join loop or at its send;
\* when fetch has returned, the log holds one line for each getFeed that
\* failed, and each line begins with the URL of a feed that failed.
C15_ErrorsLoggedOnceAfterJoin ==
    /\ ppc \in {"join", "log"} => logged = <<>>
    /\ (ppc = "tickwait" /\ nsent = 1) =>
          /\ Len(logged) = Cardinality(Failing)
          /\ \A k \in Failing :
                /\ g[k].msg.err[1] = urls[k]
                /\ CountIn(logged, g[k].msg.err)
                      = Cardinality({m \in Failing : g[m].msg.err = g[k].msg.err})
          /\ \A j \in 1..Len(logged) :
                \E k \in Failing : logged[j][1] = urls[k]

\* fetch returned after two feeds failed for different reasons.
C15_Witness ==
    /\ ppc = "tickwait" /\ nsent = 1
    /\ Len(logged) = 2
    /\ \E j, m \in 1..Len(logged) : logged[j][1] = BadUrl /\ logged[m][1] = UrlA

\* getFeed got a response whose body decodes.
Decoded == Responded /\ ~fin.resp.bad
RssLayouts == {"RFC822", "RFC822Z", "RFC1123", "RFC1123Z"}

\* The timestamp an item gets from the variant it was decoded into.
WhenOf(item, isAtom) ==
    IF (isAtom /\ item.when.layout = "RFC3339")
       \/ (~isAtom /\ item.when.layout \in RssLayouts)
    THEN item.when.t ELSE ZeroTime

\* C16: for a body that decodes tryParse returns no error and one Entry per
\* item, in document order, with the item's title and link; the timestamp
\* is the parsed date when a layout of the variant matches (RFC3339 for
\* Atom; RFC822, RFC822Z, RFC1123, RFC1123Z for RSS) and the zero time
\* otherwise.
C16_OneEntryPerItem ==
    Decoded =>
        LET items == fin.resp.doc.items
            isAtom == UnmarshalXML(fin.resp.doc).atom # "nil"
        IN  /\ fout.ch = "fc"
            /\ Len(fout.entries) = Len(items)
            /\ \A j \in 1..Len(items) :
                  /\ fout.entries[j].Title = items[j].title
                  /\ fout.entries[j].URL = items[j].link
                  /\ fout.entries[j].When = WhenOf(items[j], isAtom)

\* An RSS document whose first date matches no layout and whose second
\* matches the last layout tried.
C16_Witness ==
    /\ Decoded /\ fin.resp.doc.root = "rss"
    /\ Len(fout.entries) = 2
    /\ fin.resp.doc.items[1].when.layout = "garbage"
    /\ fout.entries[1].When = ZeroTime
    /\ fin.resp.doc.items[2].when.layout = "RFC1123Z"
    /\ fout.entries[2].When # ZeroTime

\* C17: a decoded document fills feed.rss exactly when its root is "rss" and
\* feed.atom exactly when it is not, so tryParse never reads a nil variant;
\* the dates are parsed as that variant parses them, and every entry has
\* the document's title and link as FeedName and FeedURL.
C17_DispatchOnRoot ==
    Decoded =>
        LET doc == fin.resp.doc
            feed == UnmarshalXML(doc)
        IN  /\ (feed.rss # "nil") = (doc.root = "rss")
            /\ (feed.atom # "nil") = (doc.root # "rss")
            /\ fout.ch # "panic"
            /\ \A j \in 1..Len(fout.entries) :
                  /\ fout.entries[j].FeedName = doc.title
                  /\ fout.entries[j].FeedURL = doc.link
                  /\ fout.entries[j].When = WhenOf(doc.items[j], doc.root # "rss")

\* A document with a root that is neither rss nor feed was read as Atom.
C17_Witness ==
    /\ Decoded /\ fin.resp.doc.root = "html"
    /\ fout.ch = "fc" /\ Len(fout.entries) = 2
    /\ fout.entries[1].FeedName = "Feed Q"
    /\ fin.resp.doc.items[1].when.layout = "RFC3339"
    /\ fout.entries[1].When # ZeroTime
    /\ fin.resp.doc.items[2].when.layout = "RFC822"
    /\ fout.entries[2].When = ZeroTime

\* C18 as stated: the cache file is open only while the actor is in an
\* install, and never by two at once.
C18_FileOnlyInInstall ==
    /\ (PollerHoldsFile \/ CacheHoldsFile) => Saving
    /\ ~(PollerHoldsFile /\ CacheHoldsFile)

\* C18, amended: the cache file is written only by saveFeeds within an
\* install of the cache actor and is read once by fetchFeeds at startup,
\* before anything was sent to the actor; the load and a save never
\* overlap, and no install begins while a save is running.
C18_FileAccessesDisjoint ==
    [][ /\ ~(PollerHoldsFile /\ CacheHoldsFile)
        /\ PollerHoldsFile => nsent = 0 /\ lastSent = <<>> /\ ~ticker /\ ~Saving
        /\ file' # file => CacheHoldsFile /\ cpc' = "select" /\ ~PollerHoldsFile
        /\ ReceiveStep => ~CacheHoldsFile /\ ~PollerHoldsFile
      ]_vars

\* The file was loaded at startup and the batch of a later poll is being
\* saved.
C18_Witness ==
    /\ loaded # <<>> /\ polls = 1 /\ nsent = 1
    /\ CacheHoldsFile /\ ~PollerHoldsFile

\* C19: with no non-empty URL in the list the process does not get to poll:
\* no batch of a poll over zero feeds is sent to the cache actor.
C19_EmptyUrlSetIsFatal ==
    Launched(urls) = {} => nsent = 0

NonEmpty == {k \in 1..Len(urls) : urls[k] # EmptyUrl}
Sent == {k \in 1..Len(urls) : g[k].pc = "done"}

\* C20: in a fetch call n is the number of non-empty strings of the URL list
\* and exactly their goroutines were launched; a goroutine that has sent
\* sent either entries on fc or an error on ec, and fetch has received as
\* many messages as were sent; when every goroutine has sent the join loop
\* is over, and after the join no goroutine is left before its send.
C20_JoinCountsLaunched ==
    /\ ppc \in {"join", "log"} =>
          /\ n = Cardinality(NonEmpty)
          /\ {k \in 1..Len(urls) : g[k].pc # "none"} = NonEmpty
          /\ i = Cardinality(Sent) /\ i <= n
          /\ \A k \in Sent :
                \/ g[k].msg.ch = "fc" /\ g[k].msg.err = NoErr
                \/ g[k].msg.ch = "ec" /\ g[k].msg.err # NoErr
                   /\ g[k].msg.entries = <<>>
    /\ (ppc = "join" /\ \A k \in 1..Len(urls) : g[k].pc # "run") => JoinDone
    /\ ppc = "log" => i = n /\ \A k \in 1..Len(urls) : g[k].pc # "run"

\* A list with an empty string and one feed: the join took one message.
C20_Witness ==
    /\ ppc = "log" /\ Len(urls) = 2
    /\ urls[1] = EmptyUrl /\ g[1].pc = "none"
    /\ n = 1 /\ i = 1
    /\ g[2].pc = "done" /\ g[2].msg.ch = "fc"

\* A getFeed of the running fetch call is in an http.Get that never returns.
Hung == \E k \in 1..Len(urls) : g[k].pc = "hung"

InstallOver == ~exited /\ ~Saving /\ (ticker \/ nsent = 1)

\* C22: once an install is over, the snapshot and the content of the cache
\* file are exactly the batch sent last; when that batch came from a fetch
\* call in which every feed failed, both are empty.
C22_InstallReplacesWholesale ==
    InstallOver =>
        /\ feedz = lastSent
        /\ file = [st |-> "ok", data |-> gobEncode(lastSent)]
        /\ (nsent = 1 /\ Failing = Launched(urls)) =>
              feedz = <<>> /\ file.data = <<>>

\* The poller is at a send on toSave.
SendingLoaded == ppc = "sendLoaded"
SendingBatch == ppc = "join" /\ JoinDone

\* C23: under a fair select and with saveFeeds returning, a reader waiting
\* on toShow is served and a poller at a send on toSave gets its batch
\* taken, unless the process exits; this holds from the start, before any
\* install, and with other readers requesting all the time.
C23_NoDeadlock ==
    /\ \A r \in LiveReaders :
          (rpc[r] = "waiting") ~> (rpc[r] = "idle" \/ exited)
    /\ SendingLoaded ~> (ppc = "tickwait" \/ exited)
    /\ SendingBatch ~> (ppc = "log" \/ exited)

\* One reader has been served the installed snapshot, another is waiting,
\* and the poller is at its send with the next batch.
C23_Witness ==
    /\ SendingBatch /\ polls = 1
    /\ rpc[1] = "idle" /\ got[1] = lastSent /\ got[1] # <<>>
    /\ rpc[2] = "waiting"

====
